---- MODULE Spec2Model ----
(***************************************************************************)
(* A model of the retrieval and synthesis pipeline of bplus-searchrs:      *)
(*   - perform_search (src/src/search.rs): concurrent fan-out over the     *)
(*     provider adapters, join, merge, url deduplication, relevance sort;  *)
(*   - handlers::handle_query (src/src/main.rs): the per-request event     *)
(*     stream, the LLM stream loop and the two persistence writes;         *)
(*   - DbManager::add_message / get_history (src/src/db.rs).               *)
(*                                                                         *)
(* Strings whose characters matter (titles, the query, streamed text) are  *)
(* sequences of one-character strings; strings that are only compared for  *)
(* equality (urls, engine names, native identifiers) are TLA+ strings.     *)
(***************************************************************************)
EXTENDS Integers, Sequences, FiniteSets, TLC

VARIABLES
    \* ---- perform_search (search.rs:152-210)
    providers,      \* the `providers` argument, a sequence of ProviderConfig
    query,          \* the `query` argument
    futures,        \* `futures`: per index, the adapter that was started
    results_list,   \* join_all's slots: per index, pending or the adapter's Vec
    finished,       \* the indices of the adapters in the order they completed
    spc,            \* position in perform_search: "call", "joining", "returned"
    output,         \* the Vec<SearchResult> perform_search returned
    \* ---- the live store behind DbManager (db.rs:26-46)
    conversations,  \* ids of the rows of table conversations
    messages,       \* rows of table messages, in insertion (created_at) order
    next_id,        \* the next AUTOINCREMENT id of table messages
    \* ---- the connection behind DbManager (db.rs:12-18, 166-177)
    foreign_keys,   \* PRAGMA foreign_keys of the live connection
    current_file,   \* `current_file`: None while the store is in memory
    files,          \* the database files of the storage directory, by name
    load_pc,        \* position of load_file: "idle", or "swapped" before init_schema
    loads,          \* the archive loads made so far
    \* ---- handlers::handle_query (main.rs:91-162), one entry per request
    req,
    \* ---- GenericApiProvider (search.rs:44-125)
    generic,        \* one call of extract, or one call of GenericApiProvider::search
    \* ---- local_db_search (search.rs:214-355)
    archive,        \* one call of the local archive adapter
    \* ---- DbManager::get_providers (db.rs:135-164) as called at main.rs:100
    lookup          \* table search_providers, the request's selection, the call

svars == <<providers, query, futures, results_list, finished, spc, output>>

dbvars == <<conversations, messages, next_id>>

\* the connection and the files behind it
cvars == <<foreign_keys, current_file, files, load_pc, loads>>

\* the adapters' own state, and the provider lookup before the dispatch
avars == <<generic, archive, lookup>>

vars == <<providers, query, futures, results_list, finished, spc, output,
          conversations, messages, next_id,
          foreign_keys, current_file, files, load_pc, loads, req, generic, archive, lookup>>

------------------------------------------------------------------------------
(* Bounds of the model *)

\* longest provider list handed to perform_search
MaxProviders == 2

\* longest result list one adapter returns
MaxListLen == 2

\* longest single list whose ranking is checked
MaxRankLen == 3

\* text chunks the LLM backends deliver, over all requests together
MaxChunks == 2

\* longest path handed to extract, in characters
MaxPathLen == 5

\* most items in the array of an upstream payload
MaxItems == 3

\* messages of the archive files whose hits are filtered for diversity
MaxHits == 6

\* messages of the archive files whose hit is expanded into its context
MaxArchiveMessages == 9

\* search.rs:229: `limit_raw_hits`
limit_raw_hits == 100

\* search.rs:244: LIMIT 3 of the notes query
limit_notes == 3

\* search.rs:317: the context of a hit reaches this many ids to either side
ContextRadius == 3

\* main.rs:114: the result list is cut to this many items
MaxResults == 15

------------------------------------------------------------------------------
(* Generic helpers *)

Range(s) == {s[i] : i \in DOMAIN s}

\* all sequences over S of length 0..n
SeqsUpTo(S, n) == UNION {[1..k -> S] : k \in 0..n}

\* sequences without repetition
Injective(s) == \A i, j \in DOMAIN s : i # j => s[i] # s[j]

\* Option<T>
None == <<>>

Some(x) == <<x>>

RECURSIVE Concat(_)
\* the concatenation of a sequence of sequences
Concat(ss) == IF ss = <<>> THEN <<>> ELSE Head(ss) \o Concat(Tail(ss))

------------------------------------------------------------------------------
(* Strings as character sequences *)

\* str::to_lowercase on one character (ASCII letters used by the model)
LowerChar(c) ==
    CASE c = "A" -> "a"
      [] c = "B" -> "b"
      [] c = "C" -> "c"
      [] OTHER -> c

\* str::to_lowercase
to_lowercase(s) == [i \in DOMAIN s |-> LowerChar(s[i])]

\* str::contains: `pat` occurs in `s` as a contiguous substring
contains(s, pat) ==
    \E k \in 0..(Len(s) - Len(pat)) :
        \A i \in 1..Len(pat) : s[k + i] = pat[i]

------------------------------------------------------------------------------
(* Provider configurations (search.rs:20-33) *)

pDdg == [id |-> 1, name |-> "DuckDuckGo", type_ |-> "native", api_url |-> "native_ddg"]

pGeneric == [id |-> 7, name |-> "MyApi", type_ |-> "generic", api_url |-> "http://api/?q={q}"]

pLocal == [id |-> 8, name |-> "Archive", type_ |-> "native", api_url |-> "native_local_db"]

pUnknown == [id |-> 9, name |-> "Bogus", type_ |-> "native", api_url |-> "native_bogus"]

ProviderTable == <<pDdg, pGeneric, pLocal, pUnknown>>

ProviderConfigs == Range(ProviderTable)

\* the synthetic default configuration of search.rs:162-171
DefaultLocal == [id |-> 0, name |-> "Local Database", type_ |-> "native", api_url |-> "native_local_db"]

\* a dispatcher that always adds the local archive to the list
AlwaysWithLocal(ps) == ps \o <<DefaultLocal>>

\* search.rs:161-174
effective_providers(ps) == IF ps = <<>> THEN <<DefaultLocal>> ELSE ps

\* a lookup that forgets `WHERE is_enabled = 1`
get_providers_all_rows(enabled, ids) ==
    SelectSeq(ProviderTable, LAMBDA p : ids = None \/ p.id \in Range(ids[1]))

\* db.rs:135-164: the enabled rows of search_providers in table order, and of
\* these, when ids are given, the ones whose id is among them
get_providers(enabled, ids) ==
    SelectSeq(ProviderTable,
              LAMBDA p : p.id \in enabled /\ (ids = None \/ p.id \in Range(ids[1])))

\* the `providers` field of a request body: absent, empty, one id, ids in
\* another order than the table's, an id twice, an id of no row
Selections ==
    {None, Some(<<>>), Some(<<1>>), Some(<<8, 1>>), Some(<<7, 9>>), Some(<<1, 1>>), Some(<<5>>)}

\* no lookup under way
LookupIdle == [pc |-> "idle", enabled |-> {}, ids |-> None, failed |-> FALSE]

\* the native identifiers NativeProvider::search dispatches on (search.rs:137-146)
NetworkNativeIds == {"native_ddg", "native_qwant", "native_mojeek", "native_wiki",
                     "native_reddit", "native_stack", "native_searxng"}

\* search.rs:176-186 with the match of search.rs:137-147: the adapter a
\* configuration runs. "generic" is GenericApiProvider, "local" is
\* local_db_search, "network" one of the network natives, "none" the `_` arm.
AdapterOf(p) ==
    IF p.type_ = "generic" THEN "generic"
    ELSE IF p.api_url = "native_local_db" THEN "local"
    ELSE IF p.api_url \in NetworkNativeIds THEN "network"
    ELSE "none"

\* the `engine` field an adapter stamps on its results
EngineOf(p) ==
    IF p.type_ = "generic" THEN p.name
    ELSE IF p.api_url = "native_local_db" THEN "LocalDB"
    ELSE IF p.api_url = "native_ddg" THEN "DuckDuckGo"
    ELSE "Native"

------------------------------------------------------------------------------
(* Search results (search.rs:12-18) *)

Page(t, u) == [title |-> t, url |-> u]

\* pages the adapters of the concurrent specification may return
WebPages == {Page(<<"A", "b">>, "u1"), Page(<<"c">>, "u2")}

\* pages of the merge inputs: two pages share a url
MergePages == {Page(<<"A", "b">>, "u1"), Page(<<"c">>, "u1"), Page(<<"a", "B">>, "u2")}

\* pages of the ranking inputs
RankPages == {Page(<<"A", "b">>, "u1"), Page(<<"c">>, "u1"), Page(<<"a", "B">>, "u2"),
              Page(<<"b", "c">>, "u3"), Page(<<"c", "a", "b">>, "u4")}

SearchResult(pg, p) ==
    [title |-> pg.title, url |-> pg.url, content |-> "snippet", engine |-> EngineOf(p)]

Queries == {<<>>, <<"a", "B">>, <<"c">>}

------------------------------------------------------------------------------
(* perform_search: merge, deduplicate, rank *)

\* the adapters' lists concatenated in the order the adapters completed
MergeCompletionOrder(slots) ==
    Concat([k \in 1..Len(finished) |-> slots[finished[k]].list])

\* search.rs:188-190: join_all yields the outputs in the order of `futures`,
\* whatever the completion order; `all` is their concatenation
Merge(slots) == Concat([i \in 1..Len(slots) |-> slots[i].list])

RECURSIVE DedupLoop(_, _, _)
\* search.rs:192-199: the loop over `all` with the `seen` set
DedupLoop(all, seen, unique) ==
    IF all = <<>> THEN unique
    ELSE LET r == Head(all) IN
         IF r.url \notin seen
         THEN DedupLoop(Tail(all), seen \cup {r.url}, Append(unique, r))
         ELSE DedupLoop(Tail(all), seen, unique)

RECURSIVE DedupKeepLast(_)
\* a deduplication that lets the last occurrence of a url win
DedupKeepLast(all) ==
    IF all = <<>> THEN <<>>
    ELSE LET r == Head(all) IN
         IF \E i \in DOMAIN Tail(all) : Tail(all)[i].url = r.url
         THEN DedupKeepLast(Tail(all))
         ELSE <<r>> \o DedupKeepLast(Tail(all))

\* search.rs:192-199
Dedup(all) == DedupLoop(all, {}, <<>>)

ScoreCaseSensitive(r, q) == IF contains(r.title, q) THEN 1 ELSE 0

\* search.rs:204-205: 1 when the lowercased title contains q_low
Score(r, q_low) == IF contains(to_lowercase(r.title), q_low) THEN 1 ELSE 0

\* stable insertion of x under the comparator of search.rs:203-207
\* (bscore.cmp(&ascore)): x goes before the first e with Score(x) > Score(e)
InsertStable(s, x, q_low) ==
    LET later == {i \in DOMAIN s : Score(x, q_low) > Score(s[i], q_low)}
        pos == IF later = {} THEN Len(s) + 1
               ELSE CHOOSE i \in later : \A j \in later : i <= j
    IN SubSeq(s, 1, pos - 1) \o <<x>> \o SubSeq(s, pos, Len(s))

RECURSIVE SortLoop(_, _, _)
SortLoop(rest, sorted, q_low) ==
    IF rest = <<>> THEN sorted
    ELSE SortLoop(Tail(rest), InsertStable(sorted, Head(rest), q_low), q_low)

\* search.rs:202-207: Vec::sort_by is a stable sort
Rank(unique, q) == SortLoop(unique, <<>>, to_lowercase(q))

\* search.rs:188-209: what perform_search returns once every adapter is done
SearchOutput(slots, q) == Rank(Dedup(Merge(slots)), q)

------------------------------------------------------------------------------
(* perform_search as a state machine *)

Pending == [state |-> "pending", fault |-> "none", list |-> <<>>]

Done(f, l) == [state |-> "done", fault |-> f, list |-> l]

\* the faults an adapter can meet; each degrades to an empty Vec
\* (search.rs:80, 93-121, 146, 215-224, 351-354, 364-376, 385-403)
FaultsOf(kind) ==
    CASE kind = "none" -> {"unknown_id"}
      [] kind = "local" -> {"read_dir", "task_join"}
      [] OTHER -> {"transport", "parse", "timeout"}

AllSlotsDone == \A i \in DOMAIN results_list : results_list[i].state = "done"

ProviderLists == {ps \in SeqsUpTo(ProviderConfigs, MaxProviders) : Injective(ps)}

\* search.rs:176-186: one future per effective provider
StartedAdapters(ps) ==
    [i \in 1..Len(effective_providers(ps)) |-> AdapterOf(effective_providers(ps)[i])]

JoinReadyFirstDone == \E i \in DOMAIN results_list : results_list[i].state = "done"

\* search.rs:188: join_all resolves once every future has resolved
JoinReady == AllSlotsDone

\* search.rs:158-188: build the futures and hand them to join_all
Call ==
    /\ spc = "call"
    /\ futures' = StartedAdapters(providers)
    /\ results_list' = [i \in 1..Len(futures') |-> Pending]
    /\ spc' = "joining"
    /\ UNCHANGED <<providers, query, finished, output, dbvars, req, avars, cvars>>

\* one adapter resolves: with a Vec parsed from the upstream answer ...
AdapterReturns(i) ==
    /\ spc = "joining"
    /\ i \in DOMAIN results_list
    /\ results_list[i].state = "pending"
    /\ futures[i] # "none"
    /\ \E pgs \in SeqsUpTo(WebPages, MaxListLen) :
          results_list' = [results_list EXCEPT ![i] =
              Done("none", [k \in DOMAIN pgs |->
                               SearchResult(pgs[k], effective_providers(providers)[i])])]
    /\ finished' = Append(finished, i)
    /\ UNCHANGED <<providers, query, futures, spc, output, dbvars, req, avars, cvars>>

\* ... or with the empty Vec every fault degrades to
AdapterFails(i) ==
    /\ spc = "joining"
    /\ i \in DOMAIN results_list
    /\ results_list[i].state = "pending"
    /\ \E f \in FaultsOf(futures[i]) :
          results_list' = [results_list EXCEPT ![i] = Done(f, <<>>)]
    /\ finished' = Append(finished, i)
    /\ UNCHANGED <<providers, query, futures, spc, output, dbvars, req, avars, cvars>>

\* search.rs:188-209
Join ==
    /\ spc = "joining"
    /\ JoinReady
    /\ output' = SearchOutput(results_list, query)
    /\ spc' = "returned"
    /\ UNCHANGED <<providers, query, futures, results_list, finished, dbvars, req, avars, cvars>>


------------------------------------------------------------------------------
(* serde_json::Value and GenericApiProvider::extract (search.rs:45-66)       *)
(* JSON strings, field names and paths are sequences of characters.         *)

JNull == [kind |-> "null", v |-> <<>>]

JString(s) == [kind |-> "string", v |-> s]

JNumber(n) == [kind |-> "number", v |-> n]

JBool(b) == [kind |-> "bool", v |-> b]

\* items: a sequence of values
JArray(items) == [kind |-> "array", v |-> items]

\* fields: a function from field names to values
JObject(fields) == [kind |-> "object", v |-> fields]

Digits == <<"0", "1", "2", "3", "4", "5", "6", "7", "8", "9">>

DigitValue(c) == (CHOOSE d \in DOMAIN Digits : Digits[d] = c) - 1

RECURSIVE NatString(_)
\* the decimal digits of a natural number
NatString(n) ==
    IF n < 10 THEN <<Digits[n + 1]>>
    ELSE NatString(n \div 10) \o <<Digits[(n % 10) + 1]>>

\* search.rs:62: Number::to_string (integers)
number_to_string(n) == IF n < 0 THEN <<"-">> \o NatString(-n) ELSE NatString(n)

\* search.rs:63: bool::to_string
bool_to_string(b) == IF b THEN <<"t", "r", "u", "e">> ELSE <<"f", "a", "l", "s", "e">>

RECURSIVE split(_)
\* search.rs:47: path.split('.'), which yields an empty segment between two
\* dots and at either end
split(s) ==
    LET dots == {i \in DOMAIN s : s[i] = "."} IN
    IF dots = {} THEN <<s>>
    ELSE LET k == CHOOSE i \in dots : \A j \in dots : i <= j IN
         <<SubSeq(s, 1, k - 1)>> \o split(SubSeq(s, k + 1, Len(s)))

RECURSIVE DigitsValue(_)
DigitsValue(ds) ==
    IF ds = <<>> THEN 0
    ELSE 10 * DigitsValue(SubSeq(ds, 1, Len(ds) - 1)) + DigitValue(ds[Len(ds)])

\* search.rs:51: part.parse::<usize>().ok(): an optional "+" and then one or
\* more decimal digits (paths of the model are too short to overflow usize)
parse_usize(part) ==
    LET ds == IF part # <<>> /\ part[1] = "+" THEN Tail(part) ELSE part IN
    IF ds # <<>> /\ \A i \in DOMAIN ds : ds[i] \in Range(Digits)
    THEN Some(DigitsValue(ds))
    ELSE None

\* search.rs:56: `curr[part]`, serde_json's Index<&str>: the field of an
\* object, and Null for a missing field or a value that is no object
IndexField(curr, part) ==
    IF curr.kind = "object" /\ part \in DOMAIN curr.v THEN curr.v[part] ELSE JNull

\* a coercion that drops booleans
TerminalNoBool(curr) ==
    CASE curr.kind = "string" -> curr.v
      [] curr.kind = "number" -> number_to_string(curr.v)
      [] OTHER -> <<>>

\* search.rs:60-65
Terminal(curr) ==
    CASE curr.kind = "string" -> curr.v
      [] curr.kind = "number" -> number_to_string(curr.v)
      [] curr.kind = "bool" -> bool_to_string(curr.v)
      [] OTHER -> <<>>

RECURSIVE ExtractLoop(_, _)
\* search.rs:50-65: the loop over the segments, then the coercion
ExtractLoop(curr, parts) ==
    IF parts = <<>> THEN Terminal(curr)
    ELSE LET part == Head(parts)
             idx == parse_usize(part)
         IN IF idx # None
            THEN IF curr.kind = "array"
                 THEN IF idx[1] < Len(curr.v)
                      THEN ExtractLoop(curr.v[idx[1] + 1], Tail(parts))
                      ELSE <<>>
                 ELSE <<>>
            ELSE ExtractLoop(IndexField(curr, part), Tail(parts))

\* search.rs:45-66
extract(val, path) ==
    IF path = None \/ path[1] = <<>> THEN <<>>
    ELSE ExtractLoop(val, split(path[1]))

RECURSIVE ResultRoot(_, _)
\* search.rs:96-101: walk result_path from the payload, skipping empty
\* segments; every segment, a numeric one too, is a field lookup here
ResultRoot(root, parts) ==
    IF parts = <<>> THEN root
    ELSE IF Head(parts) # <<>>
         THEN ResultRoot(IndexField(root, Head(parts)), Tail(parts))
         ELSE ResultRoot(root, Tail(parts))

\* the placeholder of search.rs:110
NoTitle == <<"No Title">>

RECURSIVE ItemsKeepAll(_, _)
\* a loop that also keeps the items without a url
ItemsKeepAll(config, arr) ==
    IF arr = <<>> THEN <<>>
    ELSE LET item == Head(arr)
             title == extract(item, config.title_path)
         IN <<[title |-> IF title = <<>> THEN NoTitle ELSE title,
               url |-> extract(item, config.url_path),
               content |-> extract(item, config.content_path),
               engine |-> config.name]>> \o ItemsKeepAll(config, Tail(arr))

RECURSIVE ItemsLoop(_, _)
\* search.rs:104-116: one SearchResult per item whose extracted url is not empty
ItemsLoop(config, arr) ==
    IF arr = <<>> THEN <<>>
    ELSE LET item == Head(arr)
             title == extract(item, config.title_path)
             url == extract(item, config.url_path)
         IN IF url # <<>>
            THEN <<[title |-> IF title = <<>> THEN NoTitle ELSE title,
                    url |-> url,
                    content |-> extract(item, config.content_path),
                    engine |-> config.name]>> \o ItemsLoop(config, Tail(arr))
            ELSE ItemsLoop(config, Tail(arr))

\* search.rs:96-117: the results read from a parsed payload
PayloadResults(config, json) ==
    LET root == IF config.result_path # None
                THEN ResultRoot(json, split(config.result_path[1]))
                ELSE json
    IN IF root.kind = "array" THEN ItemsLoop(config, root.v) ELSE <<>>

\* the configuration of a generic provider (search.rs:20-33)
GenericConfig(result_path, title_path, url_path, content_path) ==
    [name |-> "MyApi", api_url |-> Some(<<"h", "?", "{q}">>),
     result_path |-> result_path, title_path |-> title_path,
     url_path |-> url_path, content_path |-> content_path]

\* no call of the adapter under way
GenericIdle ==
    [pc |-> "idle", val |-> JNull, path |-> None, out |-> <<>>,
     config |-> GenericConfig(None, None, None, None),
     response |-> "none", payload |-> JNull, results |-> <<>>]

------------------------------------------------------------------------------
(* local_db_search (search.rs:214-355): the scan of one archive file          *)
(* Which notes and messages the text match of a query selects is an input:   *)
(* each row carries the flag `selected`. created_at is the tick at which the *)
(* row was inserted, so that it grows with the id.                           *)

Take(seq, n) == IF Len(seq) > n THEN SubSeq(seq, 1, n) ELSE seq

Reverse(seq) == [i \in DOMAIN seq |-> seq[Len(seq) + 1 - i]]

\* a row of table messages of an archive file
ArchiveMessage(id, conv_id, selected) ==
    [id |-> id, conversation_id |-> conv_id,
     role |-> IF id % 2 = 1 THEN "user" ELSE "assistant",
     content |-> <<"m">> \o NatString(id),
     created_at |-> id,
     selected |-> selected]

\* search.rs:329: role.to_uppercase()
to_uppercase(role) ==
    CASE role = "user" -> "USER"
      [] role = "assistant" -> "ASSISTANT"
      [] OTHER -> role

\* search.rs:267, 291-295
RawHit(row) == [id |-> row.id, conv_id |-> row.conversation_id, date |-> row.created_at]

\* search.rs:269-300: the selected rows, newest first, at most limit_raw_hits
raw_hits_of(file) ==
    LET newest_first == Reverse(file.messages)
        rows == SelectSeq(newest_first, LAMBDA row : row.selected)
    IN Take([k \in DOMAIN rows |-> RawHit(rows[k])], limit_raw_hits)

RECURSIVE DiversityKeepLast(_, _, _)
\* a filter that lets a later hit of a conversation replace the earlier one
DiversityKeepLast(raw_hits, seen_convs, diverse_hits) ==
    IF raw_hits = <<>> THEN diverse_hits
    ELSE LET hit == Head(raw_hits) IN
         DiversityKeepLast(Tail(raw_hits), seen_convs \cup {hit.conv_id},
             Append(SelectSeq(diverse_hits, LAMBDA h : h.conv_id # hit.conv_id), hit))

RECURSIVE DiversityLoop(_, _, _)
\* search.rs:303-311
DiversityLoop(raw_hits, seen_convs, diverse_hits) ==
    IF raw_hits = <<>> THEN diverse_hits
    ELSE LET hit == Head(raw_hits) IN
         IF hit.conv_id \notin seen_convs
         THEN DiversityLoop(Tail(raw_hits), seen_convs \cup {hit.conv_id},
                            Append(diverse_hits, hit))
         ELSE DiversityLoop(Tail(raw_hits), seen_convs, diverse_hits)

\* a context query that forgets the conversation
ContextRowsAnyConversation(file, hit) ==
    SelectSeq(file.messages,
              LAMBDA row : /\ row.id >= hit.id - ContextRadius
                           /\ row.id <= hit.id + ContextRadius)

\* search.rs:316-318: the rows of the hit's conversation with an id within
\* three of the hit's, by ascending id (file.messages is in id order)
ContextRows(file, hit) ==
    SelectSeq(file.messages,
              LAMBDA row : /\ row.conversation_id = hit.conv_id
                           /\ row.id >= hit.id - ContextRadius
                           /\ row.id <= hit.id + ContextRadius)

\* search.rs:329: format!("({}) {}: {}", date, role.to_uppercase(), content)
FormatMessage(row) ==
    <<"(">> \o NatString(row.created_at) \o <<") ", to_uppercase(row.role), ": ">>
        \o row.content

RECURSIVE JoinBlocks(_)
\* search.rs:333: join("\n\n")
JoinBlocks(blocks) ==
    IF blocks = <<>> THEN <<>>
    ELSE IF Len(blocks) = 1 THEN Head(blocks)
    ELSE Head(blocks) \o <<"\n\n">> \o JoinBlocks(Tail(blocks))

\* search.rs:323: the title of the hit's conversation, or "Chat"
chat_title_of(file, conv_id) ==
    IF conv_id \in DOMAIN file.conversations THEN file.conversations[conv_id]
    ELSE <<"Chat">>

\* search.rs:322-341: the result a surviving hit is expanded into
ChatResult(file, hit) ==
    LET rows == ContextRows(file, hit)
        full_transcript == JoinBlocks([k \in DOMAIN rows |-> FormatMessage(rows[k])])
        chat_title == chat_title_of(file, hit.conv_id)
    IN [title |-> <<"[Local: ", file.name, "] Chat: ">> \o chat_title,
        url |-> <<"local://", file.name, "/chat/">> \o chat_title \o <<"/">> \o NatString(hit.id),
        content |-> full_transcript,
        engine |-> "LocalDB"]

\* search.rs:238-257: the selected notes whose conversation exists, at most three
NoteResults(file) ==
    LET rows == Take(SelectSeq(file.notes,
                               LAMBDA n : /\ n.selected
                                          /\ n.conversation_id \in DOMAIN file.conversations),
                     limit_notes)
    IN [k \in DOMAIN rows |->
           LET title == file.conversations[rows[k].conversation_id] IN
           [title |-> <<"[Local: ", file.name, "] NOTE: ">> \o title,
            url |-> <<"local://", file.name, "/notes/">> \o title,
            content |-> <<"(Summary updated: ">> \o NatString(rows[k].updated_at)
                           \o <<") ">> \o rows[k].content,
            engine |-> "LocalDB"]]

\* search.rs:303-311
diverse_hits_of(file) == DiversityLoop(raw_hits_of(file), {}, <<>>)

\* search.rs:236-345: what the scan of one opened file adds to `results`
FileResults(file) ==
    LET diverse_hits == diverse_hits_of(file) IN
    NoteResults(file) \o [k \in DOMAIN diverse_hits |-> ChatResult(file, diverse_hits[k])]

\* the titles of the conversations of the archive files; two share a title
ArchiveTitles == (1 :> <<"T">>) @@ (2 :> <<"T">>) @@ (3 :> <<"S">>)

ArchiveFile(name, msgs) ==
    [name |-> name, conversations |-> ArchiveTitles, notes |-> <<>>, messages |-> msgs]

\* files of MaxHits messages spread over three conversations, any of them selected
DiversityFiles ==
    {ArchiveFile("a.db", [id \in 1..MaxHits |-> ArchiveMessage(id, cs[id][1], cs[id][2])]) :
        cs \in [1..MaxHits -> {1, 2, 3} \X BOOLEAN]}

\* files of MaxArchiveMessages messages spread over two conversations, one selected
ContextFiles ==
    {ArchiveFile("b.db", [id \in 1..MaxArchiveMessages |-> ArchiveMessage(id, cs[id], id = m)]) :
        cs \in [1..MaxArchiveMessages -> {1, 2}], m \in 1..MaxArchiveMessages}

\* a row of table notes of an archive file (db.rs:48-54): one per conversation
ArchiveNote(conv_id, selected) ==
    [conversation_id |-> conv_id, content |-> <<"n">> \o NatString(conv_id),
     updated_at |-> conv_id, selected |-> selected]

\* files with a note for each of the three conversations, any of them
\* selected, and one message that is selected
NoteFiles ==
    {[ArchiveFile("c.db", <<ArchiveMessage(1, 1, TRUE)>>)
         EXCEPT !.notes = [c \in 1..3 |-> ArchiveNote(c, sel[c])]] :
        sel \in [1..3 -> BOOLEAN]}

\* what read_dir finds: no archive, one archive, or two
ArchiveDirs ==
    {<<>>}
    \cup {<<f>> : f \in DiversityFiles \cup ContextFiles \cup NoteFiles}
    \cup {<<ArchiveFile("a.db", <<ArchiveMessage(1, 1, TRUE)>>),
            ArchiveFile("b.db", <<ArchiveMessage(1, 2, TRUE), ArchiveMessage(2, 2, FALSE)>>)>>}

\* no call of the adapter under way
ArchiveIdle ==
    [pc |-> "idle", files |-> <<>>, pos |-> 0, raw_hits |-> <<>>, diverse_hits |-> <<>>,
     results |-> <<>>, out |-> <<>>]

------------------------------------------------------------------------------
(* The live store: DbManager::add_message and get_history (db.rs)           *)

\* serde_json::to_string of a Vec<SearchResult>: the JSON text, kept as the
\* list it denotes; the literal "[]" of main.rs:122 is the text of the empty list
to_json(rs) == [json |-> rs]

Row(id, conv_id, role, content, sources) ==
    [id |-> id, conversation_id |-> conv_id, role |-> role, content |-> content,
     sources |-> sources]

\* an insert that skips the foreign-key check of db.rs:45
add_message_unchecked(conv_id, role, content, sources) ==
    [ok |-> TRUE, id |-> next_id, next |-> next_id + 1,
     rows |-> Append(messages, Row(next_id, conv_id, role, content, sources))]

\* db.rs:112-119 under the schema of db.rs:38-46: on a connection that
\* enforces foreign keys the INSERT fails when the conversation does not
\* exist, and stores nothing; otherwise the row gets the next AUTOINCREMENT
\* id, which is returned
add_message(conv_id, role, content, sources) ==
    IF conv_id \in conversations \/ ~foreign_keys
    THEN [ok |-> TRUE, id |-> next_id, next |-> next_id + 1,
          rows |-> Append(messages, Row(next_id, conv_id, role, content, sources))]
    ELSE [ok |-> FALSE, id |-> 0, next |-> next_id, rows |-> messages]

\* the rows of one conversation as llm::Message values, oldest first
ConversationMessages(conv_id) ==
    LET rows == SelectSeq(messages, LAMBDA m : m.conversation_id = conv_id)
    IN [i \in DOMAIN rows |-> [role |-> rows[i].role, content |-> rows[i].content]]

\* db.rs:121-133: all rows of the conversation, and the last one popped when
\* its role is "user"
get_history(conv_id) ==
    LET history == ConversationMessages(conv_id) IN
    IF history # <<>> /\ history[Len(history)].role = "user"
    THEN SubSeq(history, 1, Len(history) - 1)
    ELSE history

------------------------------------------------------------------------------
(* handlers::handle_query (main.rs:91-162)                                  *)

Reqs == {1, 2}

\* the `query` field of each request body
RequestQuery(r) == IF r = 1 THEN <<"a", "B">> ELSE <<"c">>

\* main.rs:120, 122: the fixed notice of the empty-results path
Notice == <<"No search results found to summarize.">>

\* the texts the LLM backend may deliver in one chunk
Chunks == {<<"x">>, <<"y", "z">>}

Event(name, data) == [event |-> name, data |-> data]

IdleReq(r) ==
    [pc |-> "idle",
     conversation_id |-> 1,         \* Path(conversation_id)
     query |-> RequestQuery(r),     \* req.query
     dispatch |-> <<>>,             \* what the adapters of perform_search returned
     search_results |-> <<>>,       \* search_results
     history |-> <<>>,              \* history
     full_text |-> <<>>,            \* full_text
     events |-> <<>>,               \* the events yielded to the caller so far
     llm |-> "not_called",          \* llm_stream: not_called, sending, body, failed, body_failed
     llm_history |-> <<>>,          \* the history argument of stream_completion
     llm_items |-> <<>>,            \* the items llm_stream has produced so far
     writes |-> <<>>,               \* the add_message calls made, with their results
     prior |-> <<>>]                \* the conversation as it was before the user turn

\* a long answer of one adapter: MaxResults + 3 hits, the second repeating
\* the url of the first, and only the last two matching a query
LongList ==
    [i \in 1..(MaxResults + 3) |->
        SearchResult(Page(IF i = MaxResults + 2 THEN <<"A", "b">>
                          ELSE IF i = MaxResults + 3 THEN <<"c">>
                          ELSE <<"x">>,
                          IF i = 2 THEN ToString(1) ELSE ToString(i)),
                     pGeneric)]

\* the outcomes of the adapters of one dispatch: the default local archive
\* finding nothing; one provider with one hit; a provider that timed out
\* beside one that returned two hits; a provider with a long answer
DispatchOutcomes ==
    {<<Done("none", <<>>)>>,
     <<Done("none", <<SearchResult(Page(<<"A", "b">>, "u1"), pDdg)>>)>>,
     <<Done("timeout", <<>>),
       Done("none", <<SearchResult(Page(<<"c">>, "u2"), pGeneric),
                      SearchResult(Page(<<"a", "B">>, "u1"), pGeneric)>>)>>,
     <<Done("none", LongList)>>}

\* main.rs:114
Truncate(rs) == IF Len(rs) > MaxResults THEN SubSeq(rs, 1, MaxResults) ELSE rs

\* the add_message calls made so far, by all requests
WritesMade ==
    Cardinality(UNION {{<<r, i>> : i \in DOMAIN req[r].writes} : r \in Reqs})

\* one add_message call of a request: its arguments, whether the
\* conversation existed and which store and pragma the connection had when
\* it was made, its place among all calls, and what it returned
WriteLog(conv_id, role, content, sources, w) ==
    [role |-> role, content |-> content, sources |-> sources,
     conv_present |-> conv_id \in conversations, foreign_keys |-> foreign_keys,
     store |-> current_file, at |-> WritesMade + 1, ok |-> w.ok, id |-> w.id]

\* the Ok items the LLM streams of all requests have produced
ChunksDelivered ==
    Cardinality({ri \in UNION {{<<r, i>> : i \in DOMAIN req[r].llm_items} : r \in Reqs} :
                    req[ri[1]].llm_items[ri[2]].ok})

\* main.rs:97: the user turn is written before the event stream is built
HandleQuery(r) ==
    /\ req[r].pc = "idle"
    /\ LET w == add_message(req[r].conversation_id, "user", req[r].query, None) IN
       /\ messages' = w.rows
       /\ next_id' = w.next
       /\ req' = [req EXCEPT ![r].pc = "searching",
                             ![r].prior = ConversationMessages(req[r].conversation_id),
                             ![r].writes = Append(@, WriteLog(req[r].conversation_id, "user", req[r].query, None, w))]
    /\ UNCHANGED <<conversations, svars, avars, cvars>>

\* a dispatch that cuts the merged list before it is deduplicated and ranked
SearchTruncatesFirst(r) ==
    /\ req[r].pc = "searching"
    /\ \E slots \in DispatchOutcomes :
          LET search_results == Rank(Dedup(Truncate(Merge(slots))), req[r].query) IN
          req' = [req EXCEPT ![r].pc = "results",
                             ![r].dispatch = slots,
                             ![r].search_results = search_results,
                             ![r].events = Append(@, Event("results", to_json(search_results)))]
    /\ UNCHANGED <<dbvars, svars, avars, cvars>>

\* main.rs:100-117: dispatch, truncate, yield `results`
Search(r) ==
    /\ req[r].pc = "searching"
    /\ \E slots \in DispatchOutcomes :
          LET search_results == Truncate(SearchOutput(slots, req[r].query)) IN
          req' = [req EXCEPT ![r].pc = "results",
                             ![r].dispatch = slots,
                             ![r].search_results = search_results,
                             ![r].events = Append(@, Event("results", to_json(search_results)))]
    /\ UNCHANGED <<dbvars, svars, avars, cvars>>

\* a handler that goes straight to the LLM loop
AfterResultsNoStart(r) ==
    /\ req[r].pc = "results"
    /\ IF req[r].search_results = <<>>
       THEN req' = [req EXCEPT ![r].pc = "notice",
                               ![r].events = Append(@, Event("summary-chunk", [text |-> Notice]))]
       ELSE req' = [req EXCEPT ![r].pc = "summary_start",
                               ![r].history = get_history(req[r].conversation_id)]
    /\ UNCHANGED <<dbvars, svars, avars, cvars>>

\* a handler that summarizes an empty result list like any other
AfterResultsAlwaysLlm(r) ==
    /\ req[r].pc = "results"
    /\ req' = [req EXCEPT ![r].pc = "summary_start",
                          ![r].history = get_history(req[r].conversation_id),
                          ![r].events = Append(@, Event("summary-start", [object |-> "{}"]))]
    /\ UNCHANGED <<dbvars, svars, avars, cvars>>

\* main.rs:119-120 and 126-138: on an empty list yield the notice; otherwise
\* load the history, build the prompt and yield `summary-start`
AfterResults(r) ==
    /\ req[r].pc = "results"
    /\ IF req[r].search_results = <<>>
       THEN req' = [req EXCEPT ![r].pc = "notice",
                               ![r].events = Append(@, Event("summary-chunk", [text |-> Notice]))]
       ELSE req' = [req EXCEPT ![r].pc = "summary_start",
                               ![r].history = get_history(req[r].conversation_id),
                               ![r].events = Append(@, Event("summary-start", [object |-> "{}"]))]
    /\ UNCHANGED <<dbvars, svars, avars, cvars>>

\* main.rs:121-123: save the notice and return
SaveNotice(r) ==
    /\ req[r].pc = "notice"
    /\ LET w == add_message(req[r].conversation_id, "assistant", Notice, Some(to_json(<<>>))) IN
       /\ messages' = w.rows
       /\ next_id' = w.next
       /\ req' = [req EXCEPT ![r].pc = "done",
                             ![r].writes = Append(@, WriteLog(req[r].conversation_id, "assistant",
                                                              Notice, Some(to_json(<<>>)), w))]
    /\ UNCHANGED <<conversations, svars, avars, cvars>>

\* main.rs:140-141: stream_completion is called with the loaded history
OpenLlm(r) ==
    /\ req[r].pc = "summary_start"
    /\ req' = [req EXCEPT ![r].pc = "streaming",
                          ![r].llm = "sending",
                          ![r].llm_history = req[r].history]
    /\ UNCHANGED <<dbvars, svars, avars, cvars>>

\* a loop that gives up at the first error item
StreamErrorAborts(r) ==
    /\ req[r].pc = "streaming"
    /\ req[r].llm = "sending"
    /\ req' = [req EXCEPT ![r].pc = "done",
                          ![r].llm = "failed",
                          ![r].llm_items = Append(@, [ok |-> FALSE, text |-> <<>>]),
                          ![r].events = Append(@, Event("error", [message |-> "request failed"]))]
    /\ UNCHANGED <<dbvars, svars, avars, cvars>>

\* llm.rs:169-172, 195-198 and main.rs:149-151: the request to the backend
\* fails, the stream yields one Err item (and then ends), the loop yields
\* an `error` event and goes on polling
StreamError(r) ==
    /\ req[r].pc = "streaming"
    /\ req[r].llm = "sending"
    /\ req' = [req EXCEPT ![r].llm = "failed",
                          ![r].llm_items = Append(@, [ok |-> FALSE, text |-> <<>>]),
                          ![r].events = Append(@, Event("error", [message |-> "request failed"]))]
    /\ UNCHANGED <<dbvars, svars, avars, cvars>>

\* llm.rs:174-189, 200-210 and main.rs:145-148: the stream yields Ok(text);
\* the text is appended to full_text and yielded as `summary-chunk`
StreamChunk(r) ==
    /\ req[r].pc = "streaming"
    /\ req[r].llm \in {"sending", "body"}
    /\ ChunksDelivered < MaxChunks
    /\ \E text \in Chunks :
          req' = [req EXCEPT ![r].llm = "body",
                             ![r].llm_items = Append(@, [ok |-> TRUE, text |-> text]),
                             ![r].full_text = @ \o text,
                             ![r].events = Append(@, Event("summary-chunk", [text |-> text]))]
    /\ UNCHANGED <<dbvars, svars, avars, cvars>>

\* a handler that stores everything the search returned as the sources
StreamEndStoresAll(r) ==
    /\ req[r].pc = "streaming"
    /\ LET sources_json == to_json(SearchOutput(req[r].dispatch, req[r].query))
           w == add_message(req[r].conversation_id, "assistant", req[r].full_text,
                            Some(sources_json))
           msg_id == IF w.ok THEN w.id ELSE 0
       IN
       /\ messages' = w.rows
       /\ next_id' = w.next
       /\ req' = [req EXCEPT ![r].pc = "summary_done",
                             ![r].writes = Append(@, WriteLog(req[r].conversation_id, "assistant",
                                                              req[r].full_text,
                                                              Some(sources_json), w)),
                             ![r].events = Append(@, Event("summary-done", [messageId |-> msg_id]))]
    /\ UNCHANGED <<conversations, svars, avars, cvars>>

\* a handler that reports a failed save instead of finishing the summary
StreamEndFailsLoudly(r) ==
    /\ req[r].pc = "streaming"
    /\ LET sources_json == to_json(req[r].search_results)
           w == add_message(req[r].conversation_id, "assistant", req[r].full_text,
                            Some(sources_json))
       IN
       /\ messages' = w.rows
       /\ next_id' = w.next
       /\ req' = [req EXCEPT ![r].pc = "summary_done",
                             ![r].writes = Append(@, WriteLog(req[r].conversation_id, "assistant",
                                                              req[r].full_text,
                                                              Some(sources_json), w)),
                             ![r].events = Append(@, IF w.ok
                                                     THEN Event("summary-done", [messageId |-> w.id])
                                                     ELSE Event("error", [message |-> "save failed"]))]
    /\ UNCHANGED <<conversations, svars, avars, cvars>>

\* llm.rs:174-175, 200-201: reading the response body fails. The Err of
\* bytes_stream is dropped by `if let Ok(bytes) = item`, nothing is yielded
\* for it, and the body stream ends
StreamBodyError(r) ==
    /\ req[r].pc = "streaming"
    /\ req[r].llm \in {"sending", "body"}
    /\ req' = [req EXCEPT ![r].llm = "body_failed"]
    /\ UNCHANGED <<dbvars, svars, avars, cvars>>

\* main.rs:153-158: the stream has ended; save the assistant message and
\* yield `summary-done` with its id, or 0 when the write failed
StreamEnd(r) ==
    /\ req[r].pc = "streaming"
    /\ LET sources_json == to_json(req[r].search_results)
           w == add_message(req[r].conversation_id, "assistant", req[r].full_text,
                            Some(sources_json))
           msg_id == IF w.ok THEN w.id ELSE 0
       IN
       /\ messages' = w.rows
       /\ next_id' = w.next
       /\ req' = [req EXCEPT ![r].pc = "summary_done",
                             ![r].writes = Append(@, WriteLog(req[r].conversation_id, "assistant",
                                                              req[r].full_text,
                                                              Some(sources_json), w)),
                             ![r].events = Append(@, Event("summary-done", [messageId |-> msg_id]))]
    /\ UNCHANGED <<conversations, svars, avars, cvars>>

\* main.rs:159: the generator ends after its last yield
Finish(r) ==
    /\ req[r].pc = "summary_done"
    /\ req' = [req EXCEPT ![r].pc = "done"]
    /\ UNCHANGED <<dbvars, svars, avars, cvars>>

\* main.rs:161: the caller disconnects and the Sse body, with the generator
\* suspended at an await or a yield, is dropped
Disconnect(r) ==
    /\ req[r].pc \in {"searching", "results", "notice", "summary_start", "streaming",
                      "summary_done"}
    /\ req' = [req EXCEPT ![r].pc = "dropped"]
    /\ UNCHANGED <<dbvars, svars, avars, cvars>>

\* db.rs:220-223: DELETE FROM conversations, cascading to its messages on a
\* connection that enforces foreign keys
DeleteConversation(id) ==
    /\ id \in conversations
    /\ conversations' = conversations \ {id}
    /\ messages' = IF foreign_keys
                   THEN SelectSeq(messages, LAMBDA m : m.conversation_id # id)
                   ELSE messages
    /\ UNCHANGED <<next_id, req, svars, avars, cvars>>

\* db.rs:12-18 and main.rs:27-28: a store in memory, its schema initialised
ConnectionIdle ==
    /\ foreign_keys = TRUE
    /\ current_file = None
    /\ files = <<>>
    /\ load_pc = "idle"
    /\ loads = 0

\* the store and the requests when only perform_search is looked at
OrchestratorIdle ==
    /\ conversations = {}
    /\ messages = <<>>
    /\ next_id = 1
    /\ ConnectionIdle
    /\ req = [r \in Reqs |-> IdleReq(r)]

\* perform_search when only the requests are looked at
SearchIdle ==
    /\ providers = <<>>
    /\ query = <<>>
    /\ futures = <<>>
    /\ results_list = <<>>
    /\ finished = <<>>
    /\ spc = "idle"
    /\ output = <<>>

\* one conversation holding an earlier exchange
Init ==
    /\ conversations = {1}
    /\ messages = <<Row(1, 1, "user", <<"q", "0">>, None),
                    Row(2, 1, "assistant", <<"a", "0">>, Some(to_json(<<>>)))>>
    /\ next_id = 3
    /\ ConnectionIdle
    /\ req = [r \in Reqs |-> IdleReq(r)]
    /\ SearchIdle
    /\ generic = GenericIdle
    /\ archive = ArchiveIdle
    /\ lookup = LookupIdle

Next ==
    \/ \E r \in Reqs : HandleQuery(r)
    \/ \E r \in Reqs : Search(r)
    \/ \E r \in Reqs : AfterResults(r)
    \/ \E r \in Reqs : SaveNotice(r)
    \/ \E r \in Reqs : OpenLlm(r)
    \/ \E r \in Reqs : StreamError(r)
    \/ \E r \in Reqs : StreamChunk(r)
    \/ \E r \in Reqs : StreamBodyError(r)
    \/ \E r \in Reqs : StreamEnd(r)
    \/ \E r \in Reqs : Finish(r)
    \/ \E r \in Reqs : Disconnect(r)
    \/ \E id \in conversations : DeleteConversation(id)

Spec == Init /\ [][Next]_vars

------------------------------------------------------------------------------
(* the requests beside DbManager::load_file (db.rs:166-177, 272-275) *)

\* the archive loads looked at
MaxLoads == 1

\* what a database file holds of the tables modelled, with the AUTOINCREMENT
\* counter of its sqlite_sequence
StoreOf(convs, rows, next) == [conversations |-> convs, messages |-> rows, next_id |-> next]

\* a file saved after the first user turn of conversation 1
SavedFiles ==
    [f \in {"old.db"} |-> StoreOf({1}, <<Row(1, 1, "user", <<"q", "0">>, None)>>, 2)]

\* db.rs:168-174: the file is opened and the connection and current_file are
\* replaced under the lock. What the old connection held stays in its file,
\* or is lost with a store in memory. The new connection has the
\* foreign_keys setting the SQLite build gives a fresh connection, until
\* init_schema runs
LoadFileSwap(f) ==
    /\ load_pc = "idle"
    /\ loads < MaxLoads
    /\ f \in DOMAIN files
    /\ LET on_disk == IF current_file = None THEN files
                      ELSE [files EXCEPT ![current_file[1]] =
                                StoreOf(conversations, messages, next_id)]
       IN
       /\ files' = on_disk
       /\ conversations' = on_disk[f].conversations
       /\ messages' = on_disk[f].messages
       /\ next_id' = on_disk[f].next_id
    /\ current_file' = Some(f)
    /\ foreign_keys' \in BOOLEAN
    /\ load_pc' = "swapped"
    /\ loads' = loads + 1
    /\ UNCHANGED <<req, svars, avars>>

\* db.rs:175 with db.rs:30: init_schema on the new connection
LoadFileInit ==
    /\ load_pc = "swapped"
    /\ foreign_keys' = TRUE
    /\ load_pc' = "idle"
    /\ UNCHANGED <<dbvars, current_file, files, loads, req, svars, avars>>

\* a request that is not sent while the store is being replaced
UnsentReq(r) == [IdleReq(r) EXCEPT !.pc = "unsent"]

\* one request, one conversation holding an earlier exchange, and a file to
\* load
InitStore ==
    /\ conversations = {1}
    /\ messages = <<Row(1, 1, "user", <<"q", "0">>, None),
                    Row(2, 1, "assistant", <<"a", "0">>, Some(to_json(<<>>)))>>
    /\ next_id = 3
    /\ foreign_keys = TRUE
    /\ current_file = None
    /\ files = SavedFiles
    /\ load_pc = "idle"
    /\ loads = 0
    /\ req = [r \in Reqs |-> IF r = 1 THEN IdleReq(r) ELSE UnsentReq(r)]
    /\ SearchIdle
    /\ generic = GenericIdle
    /\ archive = ArchiveIdle
    /\ lookup = LookupIdle

NextStore ==
    \/ Next
    \/ \E f \in DOMAIN files : LoadFileSwap(f)
    \/ LoadFileInit

SpecStore == InitStore /\ [][NextStore]_vars

------------------------------------------------------------------------------
(* perform_search alone, its adapters running concurrently *)

\* a call of perform_search with a drawn provider list and query
InitSearch ==
    /\ providers \in ProviderLists
    /\ query \in Queries
    /\ futures = <<>>
    /\ results_list = <<>>
    /\ finished = <<>>
    /\ spc = "call"
    /\ output = <<>>
    /\ OrchestratorIdle
    /\ generic = GenericIdle
    /\ archive = ArchiveIdle
    /\ lookup = LookupIdle

NextSearch ==
    \/ Call
    \/ \E i \in DOMAIN results_list : AdapterReturns(i)
    \/ \E i \in DOMAIN results_list : AdapterFails(i)
    \/ Join

SpecSearch == InitSearch /\ [][NextSearch]_vars

\* an adapter whose completion the code bounds resolves: a network adapter
\* answers or fails within the timeout of the client built at main.rs:104,
\* and the `_` arm (search.rs:146) and a generic adapter without url
\* (search.rs:80) return without waiting for anything. local_db_search
\* awaits its spawn_blocking task (search.rs:226, 351) under no timeout
BoundedAdapterResolves(i) ==
    /\ i \in DOMAIN futures
    /\ futures[i] # "local"
    /\ AdapterReturns(i) \/ AdapterFails(i)

\* the executor polls perform_search and join_all whenever they can go on,
\* and every bounded adapter resolves; nothing makes the blocking scan of
\* the archive files come back
FairSearch ==
    /\ WF_vars(Call)
    /\ WF_vars(Join)
    /\ \A i \in 1..MaxProviders : WF_vars(BoundedAdapterResolves(i))

SpecSearchFair == InitSearch /\ [][NextSearch]_vars /\ FairSearch

------------------------------------------------------------------------------
(* perform_search on drawn inputs: every adapter has already resolved, with  *)
(* lists drawn from bounded sets, and Join applies merge, dedup and sort     *)

StampedLists(p, pages, n) ==
    {[k \in DOMAIN pgs |-> SearchResult(pgs[k], p)] : pgs \in SeqsUpTo(pages, n)}

RECURSIVE DoneSlots(_, _, _)
\* every way the adapters of `ps` can have resolved with lists over `pages`
DoneSlots(ps, pages, n) ==
    IF ps = <<>> THEN {<<>>}
    ELSE LET front == SubSeq(ps, 1, Len(ps) - 1) IN
         {Append(slots, Done("none", l)) :
             slots \in DoneSlots(front, pages, n),
             l \in StampedLists(ps[Len(ps)], pages, n)}

InitPure ==
    /\ query \in Queries
    /\ \/ /\ providers \in {SubSeq(ProviderTable, 1, n) : n \in 1..MaxProviders}
          /\ results_list \in DoneSlots(providers, MergePages, MaxListLen)
       \/ /\ providers = <<pGeneric>>
          /\ results_list \in DoneSlots(providers, RankPages, MaxRankLen)
    /\ futures = StartedAdapters(providers)
    /\ finished = [i \in DOMAIN providers |-> i]
    /\ spc = "joining"
    /\ output = <<>>
    /\ OrchestratorIdle
    /\ generic = GenericIdle
    /\ archive = ArchiveIdle
    /\ lookup = LookupIdle

SpecPure == InitPure /\ [][Join]_vars

------------------------------------------------------------------------------
(* GenericApiProvider::extract on drawn values and paths *)

\* the characters of the paths handed to extract
PathChars == {"a", "0", "1", ".", "+"}

Paths == {None} \cup {Some(p) : p \in SeqsUpTo(PathChars, MaxPathLen)}

\* the values handed to extract: every kind of leaf, arrays, and objects
\* with plain, numeric, signed and empty field names
JsonValues ==
    {JNull, JString(<<"x">>), JString(<<>>), JString(<<"4", "2">>),
     JNumber(0), JNumber(7), JNumber(-12), JNumber(305),
     JBool(TRUE), JBool(FALSE),
     JArray(<<>>),
     JArray(<<JString(<<"x">>), JNumber(7)>>),
     JObject(<<"a">> :> JString(<<"x">>)),
     JObject((<<"a">> :> JNumber(305)) @@ (<<"0">> :> JString(<<"y">>))),
     JObject(<<"a">> :> JObject((<<"a">> :> JBool(TRUE)) @@ (<<"1">> :> JNumber(-12)))),
     JObject(<<"a">> :> JArray(<<JString(<<"x">>), JObject(<<"a">> :> JBool(FALSE))>>)),
     JObject((<<>> :> JString(<<"e">>)) @@ (<<"a">> :> JNull)),
     JObject((<<"+", "1">> :> JString(<<"p">>)) @@ (<<"a", "0">> :> JNumber(7)))}

\* a call extract(val, path)
InitExtract ==
    /\ generic \in {[GenericIdle EXCEPT !.pc = "extract", !.val = val, !.path = path] :
                       val \in JsonValues, path \in Paths}
    /\ SearchIdle
    /\ OrchestratorIdle
    /\ archive = ArchiveIdle
    /\ lookup = LookupIdle

\* search.rs:45-66
Extract ==
    /\ generic.pc = "extract"
    /\ generic' = [generic EXCEPT !.pc = "extracted",
                                  !.out = extract(generic.val, generic.path)]
    /\ UNCHANGED <<svars, dbvars, req, archive, lookup, cvars>>

SpecExtract == InitExtract /\ [][Extract]_vars

------------------------------------------------------------------------------
(* GenericApiProvider::search on drawn configurations and payloads *)

Str(c) == JString(<<c>>)

\* the items of the upstream arrays: complete; empty title and no content;
\* empty url; no url; number and boolean fields; a nested url; no object
Items ==
    {JObject((<<"t">> :> Str("T")) @@ (<<"u">> :> Str("U1")) @@ (<<"c">> :> Str("C"))),
     JObject((<<"t">> :> JString(<<>>)) @@ (<<"u">> :> Str("U2"))),
     JObject((<<"t">> :> Str("T")) @@ (<<"u">> :> JString(<<>>))),
     JObject(<<"t">> :> Str("T")),
     JObject((<<"t">> :> JBool(TRUE)) @@ (<<"u">> :> JNumber(7))),
     JObject((<<"t">> :> Str("T")) @@ (<<"u">> :> JObject(<<"a">> :> Str("U3")))),
     Str("x")}

ItemArrays == {JArray(items) : items \in SeqsUpTo(Items, MaxItems)}

\* the payloads: a bare array, an array under "r", under "r.d", under "0",
\* and payloads whose result path leads to no array
Payloads ==
    ItemArrays
    \cup {JObject(<<"r">> :> arr) : arr \in ItemArrays}
    \cup {JObject(<<"r">> :> JObject(<<"d">> :> arr)) : arr \in ItemArrays}
    \cup {JObject(<<"0">> :> arr) : arr \in ItemArrays}
    \cup {JNull, Str("x"), JObject(<<"r">> :> Str("x")), JObject(<<"q">> :> JArray(<<>>))}

GenericConfigs ==
    {GenericConfig(Some(<<"r">>), Some(<<"t">>), Some(<<"u">>), Some(<<"c">>)),
     GenericConfig(None, Some(<<"t">>), Some(<<"u">>), None),
     GenericConfig(Some(<<"r", ".", "d">>), None, Some(<<"u">>), Some(<<"c">>)),
     GenericConfig(Some(<<".", "r", ".">>), Some(<<"t">>), Some(<<"u", ".", "a">>), Some(<<"c">>)),
     GenericConfig(Some(<<"0">>), Some(<<"t">>), Some(<<"u">>), Some(<<"c">>)),
     [GenericConfig(Some(<<"r">>), Some(<<"t">>), Some(<<"u">>), Some(<<"c">>))
         EXCEPT !.api_url = None]}

InitGeneric ==
    /\ generic \in {[GenericIdle EXCEPT !.pc = "call", !.config = c] : c \in GenericConfigs}
    /\ SearchIdle
    /\ OrchestratorIdle
    /\ archive = ArchiveIdle
    /\ lookup = LookupIdle

\* search.rs:79-80: without a url template nothing is requested
GenericNoUrl ==
    /\ generic.pc = "call"
    /\ generic.config.api_url = None \/ generic.config.api_url = Some(<<>>)
    /\ generic' = [generic EXCEPT !.pc = "done", !.results = <<>>]
    /\ UNCHANGED <<svars, dbvars, req, archive, lookup, cvars>>

\* search.rs:81-93: the request is built and sent
GenericSend ==
    /\ generic.pc = "call"
    /\ generic.config.api_url # None /\ generic.config.api_url # Some(<<>>)
    /\ generic' = [generic EXCEPT !.pc = "sent"]
    /\ UNCHANGED <<svars, dbvars, req, archive, lookup, cvars>>

\* search.rs:120 and the missing else of search.rs:95: the request failed
\* (transport error, timeout), or the body is no JSON
GenericFails ==
    /\ generic.pc = "sent"
    /\ \E f \in {"send_err", "json_err"} :
          generic' = [generic EXCEPT !.pc = "done", !.response = f, !.results = <<>>]
    /\ UNCHANGED <<svars, dbvars, req, archive, lookup, cvars>>

\* search.rs:94-118: the body parsed as JSON
GenericResponse ==
    /\ generic.pc = "sent"
    /\ \E json \in Payloads :
          generic' = [generic EXCEPT !.pc = "done", !.response = "json", !.payload = json,
                                     !.results = PayloadResults(generic.config, json)]
    /\ UNCHANGED <<svars, dbvars, req, archive, lookup, cvars>>

NextGeneric == GenericNoUrl \/ GenericSend \/ GenericFails \/ GenericResponse

SpecGeneric == InitGeneric /\ [][NextGeneric]_vars

------------------------------------------------------------------------------
(* local_db_search on drawn archive directories *)

InitLocal ==
    /\ archive \in {[ArchiveIdle EXCEPT !.pc = "call", !.files = fs] : fs \in ArchiveDirs}
    /\ lookup = LookupIdle
    /\ SearchIdle
    /\ OrchestratorIdle
    /\ generic = GenericIdle

\* search.rs:215-224: read_dir fails, or finds no archive file
LocalNothingToScan ==
    /\ archive.pc = "call"
    /\ \E read_dir_ok \in BOOLEAN :
          /\ read_dir_ok => archive.files = <<>>
          /\ archive' = [archive EXCEPT !.pc = "done", !.out = <<>>]
    /\ UNCHANGED <<svars, dbvars, req, generic, lookup, cvars>>

\* search.rs:226: the scan is handed to a blocking task
LocalSpawn ==
    /\ archive.pc = "call"
    /\ archive.files # <<>>
    /\ archive' = [archive EXCEPT !.pc = "task", !.pos = 1]
    /\ UNCHANGED <<svars, dbvars, req, generic, lookup, cvars>>

\* search.rs:231-346: the next file is opened and scanned
LocalScanFile ==
    /\ archive.pc = "task"
    /\ archive.pos <= Len(archive.files)
    /\ LET file == archive.files[archive.pos] IN
       archive' = [archive EXCEPT !.pos = @ + 1,
                                  !.raw_hits = raw_hits_of(file),
                                  !.diverse_hits = diverse_hits_of(file),
                                  !.results = @ \o FileResults(file)]
    /\ UNCHANGED <<svars, dbvars, req, generic, lookup, cvars>>

\* search.rs:234: a file that cannot be opened is skipped
LocalSkipFile ==
    /\ archive.pc = "task"
    /\ archive.pos <= Len(archive.files)
    /\ archive' = [archive EXCEPT !.pos = @ + 1, !.raw_hits = <<>>, !.diverse_hits = <<>>]
    /\ UNCHANGED <<svars, dbvars, req, generic, lookup, cvars>>

\* search.rs:348-354: the task ends and its results are returned, or the
\* task is lost and the adapter returns nothing
LocalAwait ==
    /\ archive.pc = "task"
    /\ \E joined \in BOOLEAN :
          /\ joined => archive.pos > Len(archive.files)
          /\ archive' = [archive EXCEPT !.pc = "done",
                                        !.out = IF joined THEN archive.results ELSE <<>>]
    /\ UNCHANGED <<svars, dbvars, req, generic, lookup, cvars>>

NextLocal == LocalNothingToScan \/ LocalSpawn \/ LocalScanFile \/ LocalSkipFile \/ LocalAwait

SpecLocal == InitLocal /\ [][NextLocal]_vars

------------------------------------------------------------------------------
(* the provider lookup of handle_query and the dispatch that follows *)

InitProviders ==
    /\ lookup \in {[pc |-> "lookup", enabled |-> e, ids |-> ids, failed |-> FALSE] :
                       e \in SUBSET {ProviderTable[i].id : i \in DOMAIN ProviderTable},
                       ids \in Selections}
    /\ providers = <<>>
    /\ query = <<"c">>
    /\ futures = <<>>
    /\ results_list = <<>>
    /\ finished = <<>>
    /\ spc = "idle"
    /\ output = <<>>
    /\ OrchestratorIdle
    /\ generic = GenericIdle
    /\ archive = ArchiveIdle

\* main.rs:100: get_providers(req.providers).unwrap_or_default(), then
\* main.rs:106-111: perform_search is called with the outcome
GetProviders ==
    /\ lookup.pc = "lookup"
    /\ \E ok \in BOOLEAN :
          /\ providers' = IF ok THEN get_providers(lookup.enabled, lookup.ids) ELSE <<>>
          /\ lookup' = [lookup EXCEPT !.pc = "done", !.failed = ~ok]
    /\ spc' = "call"
    /\ UNCHANGED <<query, futures, results_list, finished, output, dbvars, req,
                   generic, archive, cvars>>

NextProviders == GetProviders \/ Call

SpecProviders == InitProviders /\ [][NextProviders]_vars

------------------------------------------------------------------------------
(* Claims about perform_search *)

Returned == spc = "returned"

\* the result that occurs first, in provider order and then list order, with url u
FirstWithUrl(u) ==
    LET I == {i \in DOMAIN results_list :
                 \E k \in DOMAIN results_list[i].list : results_list[i].list[k].url = u}
        i0 == CHOOSE i \in I : \A j \in I : i <= j
        K == {k \in DOMAIN results_list[i0].list : results_list[i0].list[k].url = u}
        k0 == CHOOSE k \in K : \A j \in K : k <= j
    IN results_list[i0].list[k0]

\* the urls of all results the adapters returned
ProvidedUrls ==
    UNION {{results_list[i].list[k].url : k \in DOMAIN results_list[i].list} :
              i \in DOMAIN results_list}

\* C4: the output of perform_search holds no two results with the same url,
\* and for every url some provider returned, the result that survives is the
\* first occurrence in provider order (earliest provider, then earliest
\* position in that provider's list); nothing else is in the output.
C4_DedupFirstOccurrence ==
    Returned =>
        /\ \A i, j \in DOMAIN output : i # j => output[i].url # output[j].url
        /\ \A u \in ProvidedUrls :
              \E i \in DOMAIN output : output[i].url = u /\ output[i] = FirstWithUrl(u)
        /\ \A i \in DOMAIN output : output[i].url \in ProvidedUrls

\* a url returned twice inside one list and once more by a later provider,
\* each time with another title or engine
C4_Witness ==
    /\ Returned
    /\ Len(results_list) >= 2
    /\ \E k, l \in DOMAIN results_list[1].list :
          /\ k < l
          /\ results_list[1].list[k].url = results_list[1].list[l].url
          /\ results_list[1].list[k] # results_list[1].list[l]
          /\ \E m \in DOMAIN results_list[2].list :
                results_list[2].list[m].url = results_list[1].list[k].url
    /\ Len(output) >= 2

\* case-insensitive containment, stated on the characters
TitleMatches(r) ==
    \E k \in 0..(Len(r.title) - Len(query)) :
        \A i \in 1..Len(query) : LowerChar(r.title[k + i]) = LowerChar(query[i])

\* C5: the output places every result whose title contains the query
\* (case-insensitively) before every result whose title does not, and inside
\* each group keeps the order the results had after merge and deduplication.
C5_StablePartition ==
    Returned =>
        LET unique == Dedup(Merge(results_list)) IN
        output = SelectSeq(unique, TitleMatches)
                    \o SelectSeq(unique, LAMBDA r : ~TitleMatches(r))

\* a non-matching result ahead of two matching ones, of which one matches
\* only when case is ignored, and a second non-matching result behind
C5_Witness ==
    /\ Returned
    /\ query # <<>>
    /\ LET unique == Dedup(Merge(results_list)) IN
       /\ Len(unique) >= 3
       /\ ~TitleMatches(unique[1])
       /\ Cardinality({i \in DOMAIN unique : TitleMatches(unique[i])}) >= 2
       /\ \E i \in DOMAIN unique :
             TitleMatches(unique[i]) /\ ~contains(unique[i].title, query)
       /\ output # unique

\* the results in provider order, each url at its first occurrence
RECURSIVE FirstOccurrences(_, _)
FirstOccurrences(all, n) ==
    IF n = 0 THEN <<>>
    ELSE LET rest == FirstOccurrences(all, n - 1) IN
         IF \E j \in 1..(n - 1) : all[j].url = all[n].url THEN rest
         ELSE Append(rest, all[n])

ConfigOrderAll == Concat([i \in DOMAIN results_list |-> results_list[i].list])

\* C6: the output of perform_search is determined by the provider list and
\* the per-provider result lists alone: it is the ranking of the lists
\* concatenated in provider order, whatever order the adapters completed in.
C6_MergeInConfigOrder ==
    Returned =>
        LET u == FirstOccurrences(ConfigOrderAll, Len(ConfigOrderAll)) IN
        output = SelectSeq(u, TitleMatches) \o SelectSeq(u, LAMBDA r : ~TitleMatches(r))

\* a later provider completed first, and merging in completion order would
\* have produced another output
C6_Witness ==
    /\ Returned
    /\ Len(finished) >= 2
    /\ finished[1] > finished[2]
    /\ Rank(Dedup(MergeCompletionOrder(results_list)), query) # output

\* C7: perform_search starts the adapter of every effective provider and
\* returns only when all of them have resolved; an adapter that met a fault
\* contributes an empty list, and every url a sibling returned is in the
\* output.
C7_JoinAllFaultIsolation ==
    /\ spc # "call" =>
          /\ Len(futures) = Len(effective_providers(providers))
          /\ DOMAIN results_list = DOMAIN futures
          /\ \A i \in DOMAIN futures :
                futures[i] = AdapterOf(effective_providers(providers)[i])
    /\ \A i \in DOMAIN results_list :
          results_list[i].fault # "none" => results_list[i].list = <<>>
    /\ Returned =>
          /\ \A i \in DOMAIN results_list : results_list[i].state = "done"
          /\ \A i \in DOMAIN results_list : \A k \in DOMAIN results_list[i].list :
                \E j \in DOMAIN output : output[j].url = results_list[i].list[k].url

\* an adapter failed first, a sibling returned results afterwards, and they
\* are in the output
C7_Witness ==
    /\ Returned
    /\ Len(finished) >= 2
    /\ results_list[finished[1]].fault \in {"transport", "timeout", "parse"}
    /\ results_list[finished[2]].fault = "none"
    /\ results_list[finished[2]].list # <<>>
    /\ output # <<>>

IsLocalConfig(p) == p.type_ # "generic" /\ p.api_url = "native_local_db"

\* C10: with an empty provider list perform_search runs exactly one adapter,
\* the local archive adapter, and no network adapter; with a non-empty list
\* it runs the local archive adapter only for a listed provider that names it.
C10_DefaultLocalOnly ==
    spc # "call" =>
        /\ providers = <<>> => futures = <<"local">>
        /\ providers # <<>> =>
              /\ Len(futures) = Len(providers)
              /\ \A i \in DOMAIN futures :
                    futures[i] = "local" => IsLocalConfig(providers[i])

\* the empty provider list, served by the local archive adapter alone
C10_Witness ==
    /\ Returned
    /\ providers = <<>>
    /\ Len(results_list) = 1
    /\ results_list[1].state = "done"
    /\ results_list[1].list # <<>>
    /\ output # <<>>

------------------------------------------------------------------------------
(* Claims about GenericApiProvider::extract *)

Extracted == generic.pc = "extracted"

\* the segments of a path: the stretches between its dots
SegmentsOf(p) ==
    LET D == {i \in DOMAIN p : p[i] = "."}
        n == Cardinality(D)
        Dot(k) == CHOOSE i \in D : Cardinality({j \in D : j < i}) = k - 1
        First(k) == IF k = 1 THEN 1 ELSE Dot(k - 1) + 1
        Last(k) == IF k = n + 1 THEN Len(p) ELSE Dot(k) - 1
    IN [k \in 1..(n + 1) |-> SubSeq(p, First(k), Last(k))]

\* a segment that reads as a non-negative integer
IsIndexSegment(seg) ==
    LET ds == IF seg # <<>> /\ seg[1] = "+" THEN Tail(seg) ELSE seg IN
    /\ ds # <<>>
    /\ \A i \in DOMAIN ds : ds[i] \in Range(Digits)

FieldNamePath(p) == \A k \in DOMAIN SegmentsOf(p) : ~IsIndexSegment(SegmentsOf(p)[k])

RECURSIVE FieldAt(_, _, _)
\* the value reached after the first k segments, each taken as a field name;
\* None when a segment is absent
FieldAt(val, segs, k) ==
    IF k = 0 THEN Some(val)
    ELSE LET prev == FieldAt(val, segs, k - 1) IN
         IF prev # None /\ prev[1].kind = "object" /\ segs[k] \in DOMAIN prev[1].v
         THEN Some(prev[1].v[segs[k]])
         ELSE None

\* s is the decimal numeral of the integer n
IsDecimalOf(s, n) ==
    LET ds == IF n < 0 THEN Tail(s) ELSE s
        m == IF n < 0 THEN -n ELSE n
    IN /\ s # <<>>
       /\ n < 0 => s[1] = "-"
       /\ ds # <<>>
       /\ \A i \in DOMAIN ds : ds[i] \in Range(Digits)
       /\ Len(ds) > 1 => ds[1] # "0"
       /\ DigitsValue(ds) = m

\* the string a reached value is turned into
IsCoerced(out, node) ==
    CASE node.kind = "string" -> out = node.v
      [] node.kind = "number" -> IsDecimalOf(out, node.v)
      [] node.kind = "bool" -> out = (IF node.v THEN <<"t", "r", "u", "e">>
                                               ELSE <<"f", "a", "l", "s", "e">>)
      [] OTHER -> out = <<>>

\* C11: for a path whose segments are all field names, extract returns the
\* empty string when a segment is absent along the path and otherwise the
\* terminal value coerced (a string as itself, a number as its decimal
\* numeral, a boolean as "true" or "false", an object, an array or null as
\* the empty string); with no path or an empty path it returns the empty
\* string.
C11_ExtractFieldPath ==
    Extracted =>
        /\ (generic.path = None \/ generic.path[1] = <<>>) => generic.out = <<>>
        /\ (generic.path # None /\ generic.path[1] # <<>> /\ FieldNamePath(generic.path[1])) =>
              LET segs == SegmentsOf(generic.path[1])
                  t == FieldAt(generic.val, segs, Len(segs))
              IN IF t = None THEN generic.out = <<>> ELSE IsCoerced(generic.out, t[1])

\* a two-segment path that leads to a boolean
C11_Witness ==
    /\ Extracted
    /\ generic.path # None
    /\ Len(SegmentsOf(generic.path[1])) = 2
    /\ FieldNamePath(generic.path[1])
    /\ FieldAt(generic.val, SegmentsOf(generic.path[1]), 2) = Some(JBool(TRUE))
    /\ generic.out = <<"t", "r", "u", "e">>

\* the number an index segment reads as
IndexOf(seg) == DigitsValue(IF seg[1] = "+" THEN Tail(seg) ELSE seg)

RECURSIVE ResolvedAt(_, _, _)
\* the value reached after the first k segments when a numeric segment
\* indexes an array and every other segment, a numeric one on an object
\* included, is a field lookup; None when resolution stops or a field is absent
ResolvedAt(val, segs, k) ==
    IF k = 0 THEN Some(val)
    ELSE LET prev == ResolvedAt(val, segs, k - 1) IN
         IF prev = None THEN None
         ELSE IF IsIndexSegment(segs[k]) /\ prev[1].kind = "array"
              THEN IF IndexOf(segs[k]) < Len(prev[1].v)
                   THEN Some(prev[1].v[IndexOf(segs[k]) + 1])
                   ELSE None
              ELSE IF prev[1].kind = "object" /\ segs[k] \in DOMAIN prev[1].v
                   THEN Some(prev[1].v[segs[k]])
                   ELSE None

\* C12: a segment that reads as a non-negative integer indexes the current
\* value when that value is an array (an index out of range ends resolution
\* with the empty string); in every other case, also when the current value
\* is an object with a field named by those digits, the segment is looked up
\* as a field name and resolution goes on.
C12_NumericSegmentResolution ==
    (Extracted /\ generic.path # None /\ generic.path[1] # <<>>) =>
        LET segs == SegmentsOf(generic.path[1])
            t == ResolvedAt(generic.val, segs, Len(segs))
        IN IF t = None THEN generic.out = <<>> ELSE IsCoerced(generic.out, t[1])

GenericDone == generic.pc = "done" /\ generic.response = "json"

\* the array the result path leads to, as a sequence; empty when it leads
\* to no array
PayloadItems ==
    LET segs == IF generic.config.result_path = None THEN <<>>
                ELSE SelectSeq(SegmentsOf(generic.config.result_path[1]),
                               LAMBDA seg : seg # <<>>)
        t == FieldAt(generic.payload, segs, Len(segs))
    IN IF t # None /\ t[1].kind = "array" THEN t[1].v ELSE <<>>

ItemUrl(item) == extract(item, generic.config.url_path)

\* C13: every result of the Generic adapter has a non-empty url; the results
\* are the items of the payload's array whose extracted url is not empty, in
\* array order, with the title "No Title" when the extracted title is empty
\* and the content "" when the content is missing; a payload whose result
\* path leads to no array, a failed request and an unreadable body give the
\* empty list.
C13_GenericResults ==
    /\ generic.pc = "done" =>
          \A k \in DOMAIN generic.results : generic.results[k].url # <<>>
    /\ (generic.pc = "done" /\ generic.response # "json") => generic.results = <<>>
    /\ GenericDone =>
          LET kept == SelectSeq(PayloadItems, LAMBDA item : ItemUrl(item) # <<>>) IN
          /\ Len(generic.results) = Len(kept)
          /\ \A k \in DOMAIN kept :
                LET title == extract(kept[k], generic.config.title_path) IN
                /\ generic.results[k].url = ItemUrl(kept[k])
                /\ generic.results[k].title = (IF title = <<>> THEN <<"No Title">> ELSE title)
                /\ generic.results[k].content = extract(kept[k], generic.config.content_path)
                /\ generic.results[k].engine = generic.config.name
                /\ IndexField(kept[k], <<"c">>) = JNull => generic.results[k].content = <<>>

\* an item without a url was dropped between two that were kept, one of
\* them with the placeholder title and without content
C13_Witness ==
    /\ GenericDone
    /\ Len(PayloadItems) = 3
    /\ ItemUrl(PayloadItems[1]) # <<>>
    /\ ItemUrl(PayloadItems[2]) = <<>>
    /\ ItemUrl(PayloadItems[3]) # <<>>
    /\ Len(generic.results) = 2
    /\ generic.results[2].title = <<"No Title">>
    /\ generic.results[2].content = <<>>
    /\ generic.results[1].title # <<"No Title">>

------------------------------------------------------------------------------
(* Claims about local_db_search *)

\* a file has just been scanned
Scanned == archive.pc = "task" /\ archive.pos > 1 /\ archive.raw_hits # <<>>

ScannedFile == archive.files[archive.pos - 1]

\* the position in raw_hits of the first hit of conversation c
FirstHitOf(c) ==
    CHOOSE i \in DOMAIN archive.raw_hits :
        /\ archive.raw_hits[i].conv_id = c
        /\ \A j \in 1..(i - 1) : archive.raw_hits[j].conv_id # c

\* C14: of the raw hits of one archive file, given newest first, the
\* diversity filter keeps exactly one hit per conversation, the first hit of
\* that conversation in the sequence, and the kept hits are in the order
\* they had among the raw hits.
C14_DiversityFirstPerConversation ==
    Scanned =>
        LET raw == archive.raw_hits
            kept == archive.diverse_hits
            convs == {raw[i].conv_id : i \in DOMAIN raw}
        IN /\ \A i, j \in DOMAIN raw : i < j => raw[i].date >= raw[j].date
           /\ Len(kept) = Cardinality(convs)
           /\ \A c \in convs :
                 \E k \in DOMAIN kept :
                     /\ kept[k] = raw[FirstHitOf(c)]
                     /\ \A l \in DOMAIN kept : kept[l].conv_id = c => l = k
           /\ \A k, l \in DOMAIN kept :
                 k < l => FirstHitOf(kept[k].conv_id) < FirstHitOf(kept[l].conv_id)

\* the raw hits A, A, A, B, C, B give the first A, the first B, then C
C14_Witness ==
    /\ Scanned
    /\ [i \in DOMAIN archive.raw_hits |-> archive.raw_hits[i].conv_id] = <<1, 1, 1, 2, 3, 2>>
    /\ archive.diverse_hits =
          <<archive.raw_hits[1], archive.raw_hits[4], archive.raw_hits[5]>>

\* the results of the message hits of the file just scanned
ChatResults ==
    SubSeq(archive.results, Len(archive.results) - Len(archive.diverse_hits) + 1,
           Len(archive.results))

\* the ids of the messages of a transcript, read back from the date that
\* opens each of its blocks
TranscriptIds(t) ==
    LET opens == {i \in DOMAIN t : t[i] = "("}
        Open(k) == CHOOSE i \in opens : Cardinality({j \in opens : j < i}) = k - 1
        Close(k) == CHOOSE i \in DOMAIN t :
                        /\ i > Open(k)
                        /\ t[i] = ") "
                        /\ \A j \in (Open(k) + 1)..(i - 1) : t[j] # ") "
    IN [k \in 1..Cardinality(opens) |->
           DigitsValue(SubSeq(t, Open(k) + 1, Close(k) - 1))]

\* the ids of the rows of conversation c of the scanned file between lo and hi
IdsOf(c, lo, hi) ==
    {ScannedFile.messages[i].id : i \in
        {i \in DOMAIN ScannedFile.messages :
            /\ ScannedFile.messages[i].conversation_id = c
            /\ ScannedFile.messages[i].id >= lo
            /\ ScannedFile.messages[i].id <= hi}}

\* C15: the transcript of a surviving hit on message m of conversation c
\* holds exactly the messages of c with an id in m-3..m+3, by ascending id:
\* not the messages m-4 and m+4, and no message of another conversation,
\* whatever its id.
C15_ContextWindow ==
    Scanned =>
        \A k \in DOMAIN archive.diverse_hits :
            LET hit == archive.diverse_hits[k]
                ids == TranscriptIds(ChatResults[k].content)
            IN /\ {ids[i] : i \in DOMAIN ids} = IdsOf(hit.conv_id, hit.id - 3, hit.id + 3)
               /\ \A i, j \in DOMAIN ids : i < j => ids[i] < ids[j]
               /\ \A i \in DOMAIN ids : ids[i] # hit.id - 4 /\ ids[i] # hit.id + 4

\* a hit whose conversation also holds the messages m-4 and m+4, with a
\* message of another conversation inside the window
C15_Witness ==
    /\ Scanned
    /\ Len(archive.diverse_hits) = 1
    /\ LET hit == archive.diverse_hits[1]
           ids == TranscriptIds(ChatResults[1].content)
       IN /\ IdsOf(hit.conv_id, hit.id - 4, hit.id - 4) # {}
          /\ IdsOf(hit.conv_id, hit.id + 4, hit.id + 4) # {}
          /\ \E i \in DOMAIN ScannedFile.messages :
                /\ ScannedFile.messages[i].conversation_id # hit.conv_id
                /\ ScannedFile.messages[i].id \in (hit.id - 3)..(hit.id + 3)
          /\ hit.id - 3 \in {ids[i] : i \in DOMAIN ids}
          /\ hit.id + 3 \in {ids[i] : i \in DOMAIN ids}
          /\ Len(ids) >= 5

------------------------------------------------------------------------------
(* Claims about handle_query *)

NonEmptyPath(r) == req[r].search_results # <<>>

EmptyPath(r) == req[r].pc \notin {"idle", "searching"} /\ req[r].search_results = <<>>

Completed(r) == req[r].pc = "done"

AssistantWrites(r) == SelectSeq(req[r].writes, LAMBDA w : w.role = "assistant")

\* the events after `summary-start` and before `summary-done`
StreamEvents(r) ==
    SelectSeq(req[r].events, LAMBDA e : e.event \in {"summary-chunk", "error"})

RECURSIVE ChunkTexts(_)
\* the texts of the summary-chunk events of a sequence, concatenated in order
ChunkTexts(evs) ==
    IF evs = <<>> THEN <<>>
    ELSE IF Head(evs).event = "summary-chunk"
         THEN Head(evs).data.text \o ChunkTexts(Tail(evs))
         ELSE ChunkTexts(Tail(evs))

\* the row a successful write left in the store, while its conversation
\* lives and the store it went to is the live one
Stored(r, w) ==
    r \in Reqs /\ (w.ok /\ req[r].conversation_id \in conversations /\ w.store = current_file) =>
        \E i \in DOMAIN messages :
            messages[i] = Row(w.id, req[r].conversation_id, w.role, w.content, w.sources)

\* C1: on the non-empty-results path the events are, in order, one `results`,
\* one `summary-start`, then one `summary-chunk` per Ok item and one `error`
\* per Err item of the LLM stream in the order the stream produced them, then
\* one `summary-done`, after which nothing is emitted; a request that ran to
\* completion has emitted all of them; and stream_completion is not called
\* before `results` has been emitted.
C1_EventOrder ==
    \A r \in Reqs :
        LET ev == req[r].events
            n == Len(ev)
            items == req[r].llm_items
        IN
        /\ req[r].llm # "not_called" => n >= 1 /\ ev[1].event = "results"
        /\ NonEmptyPath(r) =>
              /\ \A i \in 1..n : ev[i].event = "results" <=> i = 1
              /\ \A i \in 1..n : ev[i].event = "summary-start" <=> i = 2
              /\ \A i \in 1..n : ev[i].event = "summary-done" => i = n /\ i >= 3
              /\ \A i \in 3..n : ev[i].event \in {"summary-chunk", "error", "summary-done"}
              /\ Len(StreamEvents(r)) = Len(items)
              /\ \A k \in DOMAIN items :
                    IF items[k].ok
                    THEN ev[2 + k] = Event("summary-chunk", [text |-> items[k].text])
                    ELSE ev[2 + k].event = "error"
              /\ req[r].pc \in {"summary_done", "done"} =>
                    n >= 3 /\ ev[n].event = "summary-done"
              /\ (n >= 1 /\ ev[n].event = "summary-done") =>
                    req[r].pc \in {"summary_done", "done", "dropped"}

\* a request that ran to completion after two different chunks
C1_Witness ==
    \E r \in Reqs :
        /\ Completed(r)
        /\ NonEmptyPath(r)
        /\ Len(req[r].events) = 5
        /\ req[r].events[3].event = "summary-chunk"
        /\ req[r].events[4].event = "summary-chunk"
        /\ req[r].events[3] # req[r].events[4]

\* C2: every request that ran to completion, on the empty-results path as on
\* the streaming path, has `summary-done` as its last event, carrying the id
\* of the assistant message that was persisted for it.
C2_SummaryDoneOnEveryPath ==
    \A r \in Reqs :
        Completed(r) =>
            LET ev == req[r].events IN
            /\ ev # <<>>
            /\ ev[Len(ev)].event = "summary-done"
            /\ \E i \in DOMAIN AssistantWrites(r) :
                  /\ AssistantWrites(r)[i].ok
                  /\ ev[Len(ev)].data.messageId = AssistantWrites(r)[i].id

\* what the empty-results path emits and calls, whatever the store does
EmptyPathEvents(r) ==
    /\ req[r].events = <<Event("results", to_json(<<>>)),
                         Event("summary-chunk", [text |-> Notice])>>
    /\ req[r].llm = "not_called"
    /\ Len(AssistantWrites(r)) = 1
    /\ AssistantWrites(r)[1].content = Notice
    /\ AssistantWrites(r)[1].sources = Some(to_json(<<>>))

\* C3 as stated: a completed request with an empty result list has emitted
\* `results` and exactly one `summary-chunk` with the notice, has persisted
\* exactly one assistant message (the notice, sources "[]"), and has neither
\* called stream_completion nor emitted `summary-start`.
C3_EmptyPathAsStated ==
    \A r \in Reqs :
        (Completed(r) /\ EmptyPath(r)) =>
            /\ EmptyPathEvents(r)
            /\ AssistantWrites(r)[1].ok

\* what add_message returns on the conversation and the connection it met
WriteSucceeds(w) == w.conv_present \/ ~w.foreign_keys

\* C3 as amended: the same, except that the one assistant message is
\* persisted exactly when its write succeeds; the write fails, and nothing is
\* stored, when the conversation does not exist at the time of the write on
\* a connection that enforces foreign keys, and the events are the same.
C3_EmptyPath ==
    \A r \in Reqs :
        (Completed(r) /\ EmptyPath(r)) =>
            /\ EmptyPathEvents(r)
            /\ AssistantWrites(r)[1].ok = WriteSucceeds(AssistantWrites(r)[1])
            /\ Stored(r, AssistantWrites(r)[1])
            /\ ~AssistantWrites(r)[1].ok =>
                  \A i \in DOMAIN messages : messages[i].content # Notice

\* the empty-results path ran to completion and its notice is in the store
C3_Witness ==
    \E r \in Reqs :
        /\ Completed(r)
        /\ EmptyPath(r)
        /\ AssistantWrites(r)[1].ok
        /\ \E i \in DOMAIN messages :
              /\ messages[i].id = AssistantWrites(r)[1].id
              /\ messages[i].content = Notice
              /\ messages[i].sources = Some(to_json(<<>>))

\* what the stream loop does with the items of the LLM stream
StreamLoopLog(r) ==
    /\ \A k \in DOMAIN req[r].llm_items :
          ~req[r].llm_items[k].ok => req[r].events[2 + k].event = "error"
    /\ req[r].events[Len(req[r].events)].event = "summary-done"
    /\ Len(AssistantWrites(r)) = 1
    /\ AssistantWrites(r)[1].content = ChunkTexts(req[r].events)

\* C8 as stated: when the LLM stream yields an error item the loop emits an
\* `error` event, keeps consuming, and after the end of the stream persists an
\* assistant message whose content is the concatenation, in emission order,
\* of the texts of the request's `summary-chunk` events.
C8_StreamErrorAsStated ==
    \A r \in Reqs :
        (/\ Completed(r)
         /\ NonEmptyPath(r)
         /\ \E k \in DOMAIN req[r].llm_items : ~req[r].llm_items[k].ok) =>
            /\ StreamLoopLog(r)
            /\ AssistantWrites(r)[1].ok

\* C8 as amended: the same, except that the assistant message is persisted
\* exactly when its write succeeds; when the conversation does not exist at
\* the time of the write on a connection that enforces foreign keys, the
\* write fails, nothing is stored and `summary-done` is still emitted.
C8_StreamError ==
    \A r \in Reqs :
        (Completed(r) /\ NonEmptyPath(r)) =>
            /\ StreamLoopLog(r)
            /\ AssistantWrites(r)[1].ok = WriteSucceeds(AssistantWrites(r)[1])
            /\ Stored(r, AssistantWrites(r)[1])

\* the backend failed, the error was emitted, the loop ran on to the end of
\* the stream and the (empty) text was persisted
C8_Witness ==
    \E r \in Reqs :
        /\ Completed(r)
        /\ NonEmptyPath(r)
        /\ \E i \in DOMAIN req[r].events : req[r].events[i].event = "error"
        /\ AssistantWrites(r)[1].ok
        /\ \E i \in DOMAIN messages :
              /\ messages[i].id = AssistantWrites(r)[1].id
              /\ messages[i].role = "assistant"
              /\ messages[i].content = req[r].full_text

\* the event an item of the LLM stream becomes (main.rs:145-151)
ItemEvent(item) ==
    IF item.ok THEN Event("summary-chunk", [text |-> item.text])
    ELSE Event("error", [message |-> "request failed"])

\* the identifier `summary-done` carries after the assistant write w
DoneId(w) == IF w.ok THEN w.id ELSE 0

\* the events of a whole request, from what the search returned, what the
\* LLM stream produced and the identifier the last write gave; the outcome
\* of the writes enters nowhere else
WholeEvents(r) ==
    IF req[r].search_results = <<>>
    THEN <<Event("results", to_json(<<>>)), Event("summary-chunk", [text |-> Notice])>>
    ELSE <<Event("results", to_json(req[r].search_results)),
           Event("summary-start", [object |-> "{}"])>>
         \o [k \in DOMAIN req[r].llm_items |-> ItemEvent(req[r].llm_items[k])]
         \o (IF AssistantWrites(r) = <<>> THEN <<>>
             ELSE <<Event("summary-done", [messageId |-> DoneId(AssistantWrites(r)[1])])>>)

IsPrefix(s, t) == Len(s) <= Len(t) /\ s = SubSeq(t, 1, Len(s))

\* C16: whether the user-turn write and the final assistant write succeed
\* or fail, the events of a request are the same and in the same order:
\* at every moment they are a prefix of the sequence fixed by the search
\* results and the LLM items, a completed request has emitted all of it, and
\* after the stream has ended `summary-done` is there, carrying 0 when the
\* assistant write failed and the stored id when it succeeded.
C16_PersistenceFailureKeepsEvents ==
    \A r \in Reqs :
        /\ req[r].pc \notin {"idle", "searching"} => IsPrefix(req[r].events, WholeEvents(r))
        /\ Completed(r) => req[r].events = WholeEvents(r)
        /\ (NonEmptyPath(r) /\ AssistantWrites(r) # <<>>) =>
              /\ Len(AssistantWrites(r)) = 1
              /\ req[r].events[Len(req[r].events)] =
                    Event("summary-done", [messageId |-> DoneId(AssistantWrites(r)[1])])
              /\ ~AssistantWrites(r)[1].ok =>
                    req[r].events[Len(req[r].events)].data.messageId = 0

\* a request whose two writes both failed and which still delivered a chunk
\* and ended with `summary-done` carrying 0
C16_Witness ==
    \E r \in Reqs :
        /\ Completed(r)
        /\ NonEmptyPath(r)
        /\ Len(req[r].writes) = 2
        /\ ~req[r].writes[1].ok
        /\ ~req[r].writes[2].ok
        /\ Len(req[r].events) = 4
        /\ req[r].events[3].event = "summary-chunk"
        /\ req[r].events[4] = Event("summary-done", [messageId |-> 0])

\* the add_message calls of all requests, each with its request
AllWrites == UNION {{req[r].writes[i] : i \in DOMAIN req[r].writes} : r \in Reqs}

\* add_message fails exactly when the conversation does not exist
FailsIffAbsent == \A w \in AllWrites : w.ok = w.conv_present

\* of two identifiers returned for one conversation the later is the greater
IdsIncrease ==
    \A w1 \in AllWrites : \A w2 \in AllWrites :
        (w1.ok /\ w2.ok /\ w1.at < w2.at) => w1.id < w2.id

\* C17: add_message fails when the conversation does not exist and succeeds
\* in every other case, and of two identifiers it returned for one
\* conversation the later one is the greater, whatever appends, conversation
\* deletions and archive loads came between them.
C17_AddMessage == FailsIffAbsent /\ IdsIncrease

\* the transport to the LLM backend failed, sending or reading
TransportFailed(r) == req[r].llm \in {"failed", "body_failed"}

\* C18: whenever the transport to the LLM backend has failed, while the
\* request was sent or while the response body was read, the sequence
\* returned by stream_completion holds an item tagged as an error.
C18_TransportFailureIsAnItem ==
    \A r \in Reqs :
        TransportFailed(r) => \E k \in DOMAIN req[r].llm_items : ~req[r].llm_items[k].ok

\* the ranked list perform_search returned to request r
Ranked(r) == SearchOutput(req[r].dispatch, req[r].query)

\* the list the `results` event of request r carries
ResultsEventList(r) == req[r].events[1].data.json

\* C19: the list carried by the `results` event has at most 15 items and is
\* the first min(15, n) items, in order, of the n-item list perform_search
\* returned, which is the deduplicated and ranked list of everything the
\* adapters answered.
C19_TruncateAfterRanking ==
    \A r \in Reqs :
        req[r].events # <<>> =>
            LET n == Len(Ranked(r))
                k == IF n < MaxResults THEN n ELSE MaxResults
            IN
            /\ req[r].events[1].event = "results"
            /\ Len(ResultsEventList(r)) <= MaxResults
            /\ ResultsEventList(r) = SubSeq(Ranked(r), 1, k)
            /\ Ranked(r) = Rank(Dedup(Merge(req[r].dispatch)), req[r].query)

\* a request whose adapters answered MaxResults + 3 hits, MaxResults + 2 of
\* them distinct: the event carries MaxResults items, led by a hit that
\* came after position MaxResults in the adapter's answer
C19_Witness ==
    \E r \in Reqs :
        /\ req[r].events # <<>>
        /\ Len(Ranked(r)) = MaxResults + 2
        /\ Len(ResultsEventList(r)) = MaxResults
        /\ ResultsEventList(r)[1].url \in {ToString(MaxResults + 2), ToString(MaxResults + 3)}
        /\ ResultsEventList(r)[2].url = ToString(1)
        /\ ResultsEventList(r)[3].url = ToString(3)

\* C20: every adapter perform_search started eventually finishes and
\* perform_search eventually returns, whatever the provider list, the local
\* archive adapter included.
C20_DispatchReturns ==
    /\ \A i \in 1..MaxProviders :
          (spc = "joining" /\ i \in DOMAIN results_list) ~>
              (i \in DOMAIN results_list /\ results_list[i].state = "done")
    /\ (spc = "call") ~> (spc = "returned")

\* perform_search returns whenever no adapter of the call is the local one
NetworkDispatchReturns ==
    (spc = "joining" /\ \A i \in DOMAIN futures : futures[i] # "local") ~> (spc = "returned")

\* an adapter that hit its bound has contributed the empty list
TimeoutGivesEmpty ==
    \A i \in DOMAIN results_list :
        results_list[i].fault = "timeout" => results_list[i].list = <<>>

\* the handler of request r will take no further step
Over(r) == req[r].pc \in {"done", "dropped"}

\* request r was being forwarded from the LLM stream, or had been
Forwarding(r) == NonEmptyPath(r) /\ req[r].llm # "not_called"

\* the accumulated text of request r went into one assistant write
TextPersisted(r) ==
    /\ Len(AssistantWrites(r)) = 1
    /\ AssistantWrites(r)[1].content = req[r].full_text

\* C21: once the handler of a request with a non-empty result list is over,
\* because the LLM stream was drained or because the caller disconnected
\* while it was being forwarded, the text accumulated so far has been written
\* as the assistant message, and the user message that was persisted is
\* still in its store.
C21_PersistedOnDrainOrDisconnect ==
    \A r \in Reqs :
        (Over(r) /\ Forwarding(r)) =>
            /\ TextPersisted(r)
            /\ Stored(r, req[r].writes[1])

\* after a disconnect nothing more is forwarded for the request, and nothing
\* more is done for it at all
DroppedStaysSilent ==
    [][\A r \in Reqs : req[r].pc = "dropped" => req'[r] = req[r]]_vars

\* C22: on the streaming path the sources of the assistant write, and of the
\* row it left in the store, are the serialization of the list the
\* request's `results` event carried, whatever the LLM stream produced.
C22_SourcesAreResults ==
    \A r \in Reqs :
        (NonEmptyPath(r) /\ AssistantWrites(r) # <<>>) =>
            LET w == AssistantWrites(r)[1] IN
            /\ req[r].events[1].event = "results"
            /\ w.sources = Some(req[r].events[1].data)
            /\ w.sources = Some(to_json(ResultsEventList(r)))
            /\ Stored(r, w)

\* a request whose search returned more than MaxResults hits, whose stream
\* delivered a chunk, and whose stored assistant row carries the MaxResults
\* items of its `results` event
C22_Witness ==
    \E r \in Reqs :
        /\ Completed(r)
        /\ Len(Ranked(r)) > MaxResults
        /\ Len(ResultsEventList(r)) = MaxResults
        /\ \E k \in DOMAIN req[r].llm_items : req[r].llm_items[k].ok
        /\ AssistantWrites(r)[1].ok
        /\ \E i \in DOMAIN messages :
              /\ messages[i].id = AssistantWrites(r)[1].id
              /\ messages[i].role = "assistant"
              /\ messages[i].sources = Some(req[r].events[1].data)

\* C23: the assistant message of a request is written to the store its user
\* message was written to, whatever archive load came between the two
\* writes.
C23_AssistantInUserStore ==
    \A r \in Reqs :
        \A i \in DOMAIN AssistantWrites(r) :
            AssistantWrites(r)[i].store = req[r].writes[1].store

\* C24: the hits one call of the local archive adapter has collected have
\* pairwise distinct urls, also when two conversations of one file share a
\* title, so that the deduplication of perform_search removes none of them.
C24_LocalUrlsDistinct ==
    /\ \A i \in DOMAIN archive.results : \A j \in DOMAIN archive.results :
          i # j => archive.results[i].url # archive.results[j].url
    /\ Dedup(archive.out) = archive.out

\* the message hits of one call have pairwise distinct urls
ChatUrlsDistinct ==
    LET chats == ChatResults IN
    \A i \in DOMAIN chats : \A j \in DOMAIN chats : i # j => chats[i].url # chats[j].url

\* the dispatch of the request has started its adapters
Dispatched == lookup.pc = "done" /\ spc = "joining"

\* the configurations whose adapters were started (search.rs:176-186)
Queried == effective_providers(providers)

\* the ids of the enabled rows the request's selection admits
Admitted ==
    {id \in lookup.enabled :
        /\ \E i \in DOMAIN ProviderTable : ProviderTable[i].id = id
        /\ lookup.ids = None \/ \E k \in DOMAIN lookup.ids[1] : lookup.ids[1][k] = id}

\* one adapter was started for each admitted row and for nothing else
QueriedAreAdmitted ==
    /\ {Queried[i].id : i \in DOMAIN Queried} = Admitted
    /\ Injective(Queried)
    /\ \A i \in DOMAIN Queried : Queried[i] \in ProviderConfigs
    /\ Len(futures) = Len(Queried)
    /\ \A i \in DOMAIN Queried : futures[i] = AdapterOf(Queried[i])

\* the local archive adapter alone was started
LocalAlone == Queried = <<DefaultLocal>> /\ futures = <<"local">>

\* C25 as stated: the providers queried are the enabled providers the
\* selection names, or all enabled providers when no selection is given;
\* when a selection is given and matches no enabled provider, or the lookup
\* of a request with a selection fails, the local archive adapter alone is
\* queried.
C25_ProvidersAsStated ==
    Dispatched =>
        IF lookup.ids # None /\ (lookup.failed \/ Admitted = {})
        THEN LocalAlone
        ELSE QueriedAreAdmitted

\* C25 as amended: the same, and the local archive adapter alone is queried
\* whenever the lookup yields no provider, with or without a selection:
\* no enabled provider is admitted, or the lookup failed.
C25_ProvidersQueried ==
    Dispatched =>
        IF lookup.failed \/ Admitted = {}
        THEN LocalAlone
        ELSE QueriedAreAdmitted

\* a selection naming rows 8 and 1 in that order, with rows 1, 7 and 8
\* enabled: rows 1 and 8 are queried, in table order, and row 7 is not
C25_Witness ==
    /\ Dispatched
    /\ lookup.ids = Some(<<8, 1>>)
    /\ lookup.enabled = {1, 7, 8}
    /\ ~lookup.failed
    /\ Queried = <<pDdg, pLocal>>
    /\ futures = <<"network", "local">>

\* C9: the history handed to stream_completion for a request holds no copy
\* of the request's own user message and omits no message that was stored
\* in the conversation before the request's user turn.
C9_HistoryExcludesLiveQuery ==
    \A r \in Reqs :
        req[r].llm # "not_called" =>
            /\ \A i \in DOMAIN req[r].llm_history :
                  req[r].llm_history[i] # [role |-> "user", content |-> req[r].query]
            /\ req[r].conversation_id \in conversations =>
                  \A i \in DOMAIN req[r].prior :
                      \E j \in DOMAIN req[r].llm_history :
                          req[r].llm_history[j] = req[r].prior[i]

====
